---- MODULE Spec2Model ----
(***************************************************************************)
(* Model of src/web.py: a Streamlit script that loads a pickled classifier *)
(* once (st.cache_resource), shows a five-field form, and on submission    *)
(* predicts, classifies, renders the result and then explains it.          *)
(*                                                                         *)
(* Streamlit executes the script top to bottom once per page load and once *)
(* per form submission.  Each script run is modelled as a chain of steps   *)
(* (pc); everything st.* emits in a run is appended to `screen`.           *)
(*                                                                         *)
(* Units: probabilities are counted in twentieths (0.05), so 0.25 = 5,     *)
(* 0.40 = 8, 0.60 = 12 and 1.0 = 20.  Clinical values are counted in       *)
(* hundredths, so BMI 24.5 = 2450.                                         *)
(***************************************************************************)
EXTENDS Integers, Sequences, FiniteSets, TLC

VARIABLES
    artifact,     \* what is on disk under 'gd_outcome_model.pkl'
    cache,        \* the st.cache_resource entry of load_model
    loadRuns,     \* how often the body of load_model has been executed
    loadOKs,      \* how often pickle.load has returned an object
    widgets,      \* the session's committed number_input values
    submitted,    \* value of form_submit_button in the current run
    pc,           \* position of the current script run
    model,        \* script global `model` of the current run
    input_data,   \* script global `input_data` / `df_input` of the current run
    risk_prob,    \* script global `risk_prob` of the current run
    exc,          \* the call that raised inside the current run's try block
    screen,       \* elements emitted by the current run, in order
    calls         \* pipeline operations invoked by the current run, in order

vars == <<artifact, cache, loadRuns, loadOKs, widgets, submitted, pc, model,
          input_data, risk_prob, exc, screen, calls>>

-----------------------------------------------------------------------------
(* Bounds of the model *)

\* largest probability value drawn for predict_proba, in twentieths
ProbMax == 20

\* executions of the body of load_model that are explored
MaxLoadRuns == 2

-----------------------------------------------------------------------------
(* Program constants *)

\* risk_prob > 0.6, in twentieths
HighCut == 12

\* risk_prob < 0.25, in twentieths
LowCut == 5

\* risk_prob > 0.4, in twentieths
ElevatedCut == 8

\* the value of a script global that has not been assigned, per global
NoModel == [kind |-> "none"]

NoRecord == <<>>

NoProb == -1

\* keys of input_data, in the order the dict literal lists them
Columns == <<"BMI", "FPG", "TG", "A1/B", "D_dimer">>

\* the other naming convention a trained artifact may carry
OtherColumns == <<"BMI", "FPG", "TG", "A1.B", "D-dimer">>

\* the script variables the form fills
Fields == {"bmi", "fpg", "tg", "a1_b", "d_dimer"}

\* st.number_input(label, min_value, max_value, value, step), in hundredths
NumberInputs ==
    [bmi     |-> [min_value |-> 1500, max_value |-> 5000, value |-> 2450, step |-> 10],
     fpg     |-> [min_value |-> 200,  max_value |-> 2000, value |-> 510,  step |-> 10],
     tg      |-> [min_value |-> 10,   max_value |-> 1500, value |-> 170,  step |-> 1],
     a1_b    |-> [min_value |-> 10,   max_value |-> 500,  value |-> 120,  step |-> 1],
     d_dimer |-> [min_value |-> 0,    max_value |-> 1000, value |-> 50,   step |-> 1]]

\* what a user types into a field: one step outside either bound, and one or
\* both of the bounds themselves
RawInputs ==
    [bmi     |-> {1490, 1500, 5000, 5010},
     fpg     |-> {190, 2000, 2010},
     tg      |-> {9, 10, 1501},
     a1_b    |-> {9, 500, 501},
     d_dimer |-> {-1, 0, 1001}]

\* objects pickle.load can return: a classifier with its trained feature
\* names, tree-structured or not
Models ==
    { [kind |-> "classifier", feature_names |-> Columns,      tree |-> TRUE],
      [kind |-> "classifier", feature_names |-> OtherColumns, tree |-> TRUE],
      [kind |-> "classifier", feature_names |-> Columns,      tree |-> FALSE] }

\* states of the file on disk: absent, present but not loadable, or a
\* pickle of a classifier
Artifacts ==
    { [file |-> "missing"], [file |-> "corrupt"] }
        \cup { [file |-> "pickle", object |-> m] : m \in Models }

Probs == 0..ProbMax

-----------------------------------------------------------------------------
(* Pure helpers *)

HasKind(s, k) == \E i \in 1..Len(s) : s[i].kind = k

Elements(s, k) == { s[i] : i \in { j \in 1..Len(s) : s[j].kind = k } }

IsPrefix(s, t) == Len(s) <= Len(t) /\ \A i \in 1..Len(s) : s[i] = t[i]

\* variant: a number input that declares no min_value / max_value
number_input_unchecked(f, current, raw) == raw

\* the frontend commits a typed value only when min_value <= v <= max_value;
\* otherwise the widget keeps its current value
number_input(f, current, raw) ==
    IF NumberInputs[f].min_value <= raw /\ raw <= NumberInputs[f].max_value
    THEN raw
    ELSE current

\* input_data = {'BMI': bmi, 'FPG': fpg, 'TG': tg, 'A1/B': a1_b, 'D_dimer': d_dimer}
BuildRecord(w) ==
    [n \in {"BMI", "FPG", "TG", "A1/B", "D_dimer"} |->
        CASE n = "BMI"     -> w.bmi
          [] n = "FPG"     -> w.fpg
          [] n = "TG"      -> w.tg
          [] n = "A1/B"    -> w.a1_b
          [] n = "D_dimer" -> w.d_dimer]

\* pd.DataFrame([input_data]).columns: the dict's keys in insertion order
DataFrameColumns(rec) == SelectSeq(Columns, LAMBDA n : n \in DOMAIN rec)

\* variant: the high threshold compared with >= instead of >
Classify_inclusive(p) ==
    IF p >= HighCut
    THEN [status_class |-> "status-high", status_text |-> "High Risk Profile",
          advice |-> "Intensive perinatal monitoring"]
    ELSE IF p < LowCut
    THEN [status_class |-> "status-low", status_text |-> "Low Risk Profile",
          advice |-> "Standard management"]
    ELSE [status_class |-> "status-mod", status_text |-> "Moderate Risk Profile",
          advice |-> "Increased surveillance"]

\* the if / elif / else of the classification
Classify(p) ==
    IF p > HighCut
    THEN [status_class |-> "status-high", status_text |-> "High Risk Profile",
          advice |-> "Intensive perinatal monitoring"]
    ELSE IF p < LowCut
    THEN [status_class |-> "status-low", status_text |-> "Low Risk Profile",
          advice |-> "Standard management"]
    ELSE [status_class |-> "status-mod", status_text |-> "Moderate Risk Profile",
          advice |-> "Increased surveillance"]

\* variant: the relative-risk threshold compared with >= instead of >
RelativeRisk_inclusive(p) == IF p >= ElevatedCut THEN "Elevated" ELSE "Stable"

\* "Elevated" if risk_prob > 0.4 else "Stable"
RelativeRisk(p) == IF p > ElevatedCut THEN "Elevated" ELSE "Stable"

\* XGBoost refuses a frame whose column names differ from the trained ones
FeaturesMatch(m, rec) == m.feature_names = DataFrameColumns(rec)

-----------------------------------------------------------------------------
(* Initial state: the server process is up, no script run has happened *)

Init ==
    /\ artifact \in Artifacts
    /\ cache = NoModel
    /\ loadRuns = 0
    /\ loadOKs = 0
    /\ widgets = [f \in Fields |-> NumberInputs[f].value]
    /\ submitted = FALSE
    /\ pc = "none"
    /\ model = NoModel
    /\ input_data = NoRecord
    /\ risk_prob = NoProb
    /\ exc = "none"
    /\ screen = <<>>
    /\ calls = <<>>

-----------------------------------------------------------------------------
(* Start of a script run *)

Resting == pc \in {"none", "done", "stopped"}

\* a run that would execute the body of load_model is explored only while
\* the bound on such executions allows it
MayRun == cache # NoModel \/ loadRuns < MaxLoadRuns

\* variant: results kept across runs (as values parked in st.session_state)
StartRun_keepsGlobals ==
    /\ pc' = "load"
    /\ model' = NoModel
    /\ exc' = "none"
    /\ screen' = << [kind |-> "header"] >>
    /\ calls' = <<>>
    /\ UNCHANGED <<input_data, risk_prob>>

\* the script starts from line 1 with no globals and an empty page, and
\* emits the page header
StartRun ==
    /\ pc' = "load"
    /\ model' = NoModel
    /\ input_data' = NoRecord
    /\ risk_prob' = NoProb
    /\ exc' = "none"
    /\ screen' = << [kind |-> "header"] >>
    /\ calls' = <<>>

\* a browser opens or reloads the page: a new session, widgets at their
\* declared defaults, nothing submitted
PageLoad ==
    /\ Resting
    /\ MayRun
    /\ widgets' = [f \in Fields |-> NumberInputs[f].value]
    /\ submitted' = FALSE
    /\ StartRun
    /\ UNCHANGED <<artifact, cache, loadRuns, loadOKs>>

\* the user types a value into one of the form's number inputs
SetField ==
    /\ pc = "done"
    /\ HasKind(screen, "form")
    /\ \E f \in Fields : \E raw \in RawInputs[f] :
          widgets' = [widgets EXCEPT ![f] = number_input(f, @, raw)]
    /\ UNCHANGED <<artifact, cache, loadRuns, loadOKs, submitted, pc, model,
                   input_data, risk_prob, exc, screen, calls>>

\* the user presses "Predict Outcome Risk"
Submit ==
    /\ pc = "done"
    /\ HasKind(screen, "form")
    /\ submitted' = TRUE
    /\ StartRun
    /\ UNCHANGED <<artifact, cache, loadRuns, loadOKs, widgets>>

\* somebody deploys, removes or replaces the artifact file while no model
\* is cached (once cached, the file is not looked at again)
ReplaceArtifact ==
    /\ cache = NoModel
    /\ artifact' \in Artifacts \ {artifact}
    /\ UNCHANGED <<cache, loadRuns, loadOKs, widgets, submitted, pc, model,
                   input_data, risk_prob, exc, screen, calls>>

-----------------------------------------------------------------------------
(* Steps of a script run *)

\* the body of load_model: os.path.exists, open, pickle.load
LoadBody ==
    /\ loadRuns < MaxLoadRuns
    /\ loadRuns' = loadRuns + 1
    /\ IF artifact.file = "missing"
       THEN /\ screen' = Append(screen, [kind |-> "error",
                                         text |-> "Critical Error: Model file not found"])
            /\ pc' = "stopped"
            /\ UNCHANGED <<cache, model, loadOKs>>
       ELSE IF artifact.file = "corrupt"
       THEN /\ screen' = Append(screen, [kind |-> "error",
                                         text |-> "Model Load Error"])
            /\ pc' = "stopped"
            /\ UNCHANGED <<cache, model, loadOKs>>
       ELSE /\ cache' = artifact.object
            /\ model' = artifact.object
            /\ loadOKs' = loadOKs + 1
            /\ pc' = "sidebar"
            /\ UNCHANGED screen

\* variant: load_model without @st.cache_resource
load_model_uncached ==
    /\ pc = "load"
    /\ LoadBody
    /\ UNCHANGED <<artifact, widgets, submitted, input_data, risk_prob, exc, calls>>

\* variant: load_model without st.stop(): the failure is reported and the
\* function returns None
load_model_noStop ==
    /\ pc = "load"
    /\ IF cache # NoModel
       THEN /\ model' = cache
            /\ pc' = "sidebar"
            /\ UNCHANGED <<cache, loadRuns, loadOKs, screen>>
       ELSE /\ loadRuns < MaxLoadRuns
            /\ loadRuns' = loadRuns + 1
            /\ IF artifact.file \in {"missing", "corrupt"}
               THEN /\ screen' = Append(screen, [kind |-> "error",
                                                 text |-> "Model Load Error"])
                    /\ pc' = "sidebar"
                    /\ UNCHANGED <<cache, model, loadOKs>>
               ELSE /\ cache' = artifact.object
                    /\ model' = artifact.object
                    /\ loadOKs' = loadOKs + 1
                    /\ pc' = "sidebar"
                    /\ UNCHANGED screen
    /\ UNCHANGED <<artifact, widgets, submitted, input_data, risk_prob, exc, calls>>

\* model = load_model() under @st.cache_resource: a cached object is
\* returned without running the body; a body ended by st.stop() caches nothing
load_model ==
    /\ pc = "load"
    /\ IF cache # NoModel
       THEN /\ model' = cache
            /\ pc' = "sidebar"
            /\ UNCHANGED <<cache, loadRuns, loadOKs, screen>>
       ELSE LoadBody
    /\ UNCHANGED <<artifact, widgets, submitted, input_data, risk_prob, exc, calls>>

\* with st.sidebar: the form and its submit button; then `if submitted:`
Sidebar ==
    /\ pc = "sidebar"
    /\ screen' = Append(screen, [kind |-> "form"])
    /\ pc' = IF submitted THEN "collect" ELSE "idle"
    /\ UNCHANGED <<artifact, cache, loadRuns, loadOKs, widgets, submitted, model,
                   input_data, risk_prob, exc, calls>>

\* input_data = {...}; df_input = pd.DataFrame([input_data])
Collect ==
    /\ pc = "collect"
    /\ input_data' = BuildRecord(widgets)
    /\ calls' = Append(calls, "collect")
    /\ pc' = "predict"
    /\ UNCHANGED <<artifact, cache, loadRuns, loadOKs, widgets, submitted, model,
                   risk_prob, exc, screen>>

\* variant: a predict that answers a default score when the model refuses
\* the frame
Predict_swallow ==
    /\ pc = "predict"
    /\ calls' = Append(calls, "predict")
    /\ IF FeaturesMatch(model, input_data)
       THEN /\ \E p \in Probs : risk_prob' = p
            /\ pc' = "classify"
            /\ UNCHANGED exc
       ELSE /\ exc' = "predict"
            /\ risk_prob' = 0
            /\ pc' = "classify"
    /\ UNCHANGED <<artifact, cache, loadRuns, loadOKs, widgets, submitted, model,
                   input_data, screen>>

\* prediction_probs = model.predict_proba(df_input)[0]; risk_prob = float(...)
Predict ==
    /\ pc = "predict"
    /\ calls' = Append(calls, "predict")
    /\ IF FeaturesMatch(model, input_data)
       THEN /\ \E p \in Probs : risk_prob' = p
            /\ pc' = "classify"
            /\ UNCHANGED exc
       ELSE /\ exc' = "predict"
            /\ pc' = "except"
            /\ UNCHANGED risk_prob
    /\ UNCHANGED <<artifact, cache, loadRuns, loadOKs, widgets, submitted, model,
                   input_data, screen>>

\* col1: the result box; col2: the two metrics and the input log
ClassifyRender ==
    /\ pc = "classify"
    /\ calls' = Append(calls, "classify")
    /\ LET c == Classify(risk_prob) IN
       screen' = screen \o
           << [kind |-> "result", status_class |-> c.status_class,
               status_text |-> c.status_text, prob |-> risk_prob,
               advice |-> c.advice],
              [kind |-> "metrics", score |-> risk_prob,
               relative |-> RelativeRisk(risk_prob)],
              [kind |-> "input_log", table |-> input_data] >>
    /\ pc' = "explain"
    /\ UNCHANGED <<artifact, cache, loadRuns, loadOKs, widgets, submitted, model,
                   input_data, risk_prob, exc>>

\* the SHAP heading, then TreeExplainer / shap_values / force_plot / st_shap;
\* TreeExplainer raises for a model that is not a tree ensemble, and any of
\* the four calls may raise for one that is
Explain ==
    /\ pc = "explain"
    /\ calls' = Append(calls, "explain")
    /\ \E computed \in BOOLEAN :
          IF model.tree /\ computed
          THEN /\ screen' = screen \o << [kind |-> "shap_heading"],
                                         [kind |-> "force_plot", row |-> input_data] >>
               /\ pc' = "footer"
               /\ UNCHANGED exc
          ELSE /\ screen' = Append(screen, [kind |-> "shap_heading"])
               /\ exc' = "explain"
               /\ pc' = "except"
    /\ UNCHANGED <<artifact, cache, loadRuns, loadOKs, widgets, submitted, model,
                   input_data, risk_prob>>

\* variant: the error is rendered into a placeholder that holds the whole
\* result area, replacing what the run had drawn there
HandleError_replacesPage ==
    /\ pc = "except"
    /\ screen' = << [kind |-> "header"], [kind |-> "form"],
                    [kind |-> "error", text |-> "Prediction Error"],
                    [kind |-> "hint"] >>
    /\ pc' = "footer"
    /\ UNCHANGED <<artifact, cache, loadRuns, loadOKs, widgets, submitted, model,
                   input_data, risk_prob, exc, calls>>

\* variant: the handler reports the error and attempts the failed call again
HandleError_retry ==
    /\ pc = "except"
    /\ screen' = screen \o << [kind |-> "error", text |-> "Prediction Error"],
                              [kind |-> "hint"] >>
    /\ pc' = IF Len(calls) < 6 THEN exc ELSE "footer"
    /\ UNCHANGED <<artifact, cache, loadRuns, loadOKs, widgets, submitted, model,
                   input_data, risk_prob, exc, calls>>

\* except Exception as e: st.error(...); st.info(...)
HandleError ==
    /\ pc = "except"
    /\ screen' = screen \o << [kind |-> "error", text |-> "Prediction Error"],
                              [kind |-> "hint"] >>
    /\ pc' = "footer"
    /\ UNCHANGED <<artifact, cache, loadRuns, loadOKs, widgets, submitted, model,
                   input_data, risk_prob, exc, calls>>

\* else: st.info("Please provide the patient's clinical measurements ...")
IdlePrompt ==
    /\ pc = "idle"
    /\ screen' = Append(screen, [kind |-> "idle_prompt"])
    /\ pc' = "footer"
    /\ UNCHANGED <<artifact, cache, loadRuns, loadOKs, widgets, submitted, model,
                   input_data, risk_prob, exc, calls>>

\* the footer; the script run ends
Footer ==
    /\ pc = "footer"
    /\ screen' = Append(screen, [kind |-> "footer"])
    /\ pc' = "done"
    /\ UNCHANGED <<artifact, cache, loadRuns, loadOKs, widgets, submitted, model,
                   input_data, risk_prob, exc, calls>>

ScriptStep ==
    \/ load_model
    \/ Sidebar
    \/ Collect
    \/ Predict
    \/ ClassifyRender
    \/ Explain
    \/ HandleError
    \/ IdlePrompt
    \/ Footer

Next ==
    \/ PageLoad
    \/ SetField
    \/ Submit
    \/ ReplaceArtifact
    \/ load_model
    \/ Sidebar
    \/ Collect
    \/ Predict
    \/ ClassifyRender
    \/ Explain
    \/ HandleError
    \/ IdlePrompt
    \/ Footer

Spec == Init /\ [][Next]_vars

\* the interpreter runs a started script to its end
FairSpec == Spec /\ WF_vars(ScriptStep)

-----------------------------------------------------------------------------
(* Properties *)

Tiers == {"High Risk Profile", "Moderate Risk Profile", "Low Risk Profile"}

Running == pc \notin {"none", "done", "stopped"}

\* the run has left the try block (normally or through the handler)
Handled == pc \in {"footer", "done"}

FormShown == HasKind(screen, "form")

ResultShown == HasKind(screen, "result")

ErrorShown == HasKind(screen, "error")

Invoked(op) == \E i \in 1..Len(calls) : calls[i] = op

\* C1: every rendered classification carries exactly one tier: High exactly
\* when p > 0.60, Low exactly when p < 0.25, Moderate otherwise, so that
\* p = 0.60 and p = 0.25 are Moderate; one run renders at most one result box.
C1_TierPartition ==
    /\ Cardinality(Elements(screen, "result")) <= 1
    /\ \A r \in Elements(screen, "result") :
          /\ r.status_text \in Tiers
          /\ (r.status_text = "High Risk Profile") <=> (r.prob > HighCut)
          /\ (r.status_text = "Low Risk Profile") <=> (r.prob < LowCut)
          /\ (r.status_text = "Moderate Risk Profile")
                <=> (LowCut <= r.prob /\ r.prob <= HighCut)
          /\ (r.status_class = "status-high") <=> (r.status_text = "High Risk Profile")
          /\ (r.status_class = "status-low") <=> (r.status_text = "Low Risk Profile")

\* a result for p = 0.60 exactly is on the page, as Moderate
C1_Witness ==
    \E r \in Elements(screen, "result") :
        r.prob = HighCut /\ r.status_text = "Moderate Risk Profile"

\* C2: when predict succeeded and the explanation step raised, the result
\* box, the metrics and the input log of this submission stay on the page,
\* and once the handler has run an error notice stands directly under the
\* SHAP heading where the plot would be, with no plot.
C2_ExplainFailureKeepsResult ==
    exc = "explain" =>
        /\ \E r \in Elements(screen, "result") :
              /\ r.prob = risk_prob
              /\ r.status_text = Classify(risk_prob).status_text
              /\ r.advice = Classify(risk_prob).advice
        /\ HasKind(screen, "metrics")
        /\ HasKind(screen, "input_log")
        /\ ~HasKind(screen, "force_plot")
        /\ Handled =>
              \E i \in 1..(Len(screen) - 1) :
                  /\ screen[i].kind = "shap_heading"
                  /\ screen[i + 1].kind = "error"

\* the run of a submission whose explanation raised has ended
C2_Witness ==
    /\ pc = "done"
    /\ exc = "explain"
    /\ ResultShown
    /\ ErrorShown

\* C3: a failed load reports its reason and ends the run before the form;
\* the form is offered, a submission accepted and predict / explain invoked
\* only with a successfully loaded model.
C3_NoServiceWithoutModel ==
    /\ pc = "stopped" =>
          /\ model = NoModel
          /\ cache = NoModel
          /\ Len(screen) = 2
          /\ screen[2].kind = "error"
          /\ screen[2].text \in {"Critical Error: Model file not found",
                                 "Model Load Error"}
          /\ calls = <<>>
    /\ (FormShown \/ pc \in {"sidebar", "idle", "collect", "predict", "classify",
                             "explain", "except"}
                  \/ calls # <<>>) =>
          /\ model \in Models
          /\ cache = model
          /\ loadOKs >= 1
    /\ submitted => cache \in Models

\* a run ended by a failed load, reason on the page, no form
C3_Witness ==
    /\ pc = "stopped"
    /\ ErrorShown
    /\ ~FormShown
    /\ loadRuns = 2

\* C4: when predict raises, the handler shows an error message, no tier,
\* guidance, metrics or attribution is produced for that submission, the
\* run still ends with the form on the page and the next submission can be
\* made.
C4_PredictFailureRecoverable ==
    /\ [](exc = "predict" =>
            /\ ~ResultShown
            /\ ~HasKind(screen, "metrics")
            /\ ~HasKind(screen, "shap_heading")
            /\ ~HasKind(screen, "force_plot")
            /\ ~Invoked("classify")
            /\ ~Invoked("explain")
            /\ risk_prob = NoProb
            /\ pc \in {"except", "footer", "done"}
            /\ Handled => ErrorShown
            /\ pc = "done" => (FormShown /\ ENABLED Submit))
    /\ (exc = "predict") ~> (pc = "done" /\ exc = "predict" /\ ErrorShown)

\* the run of a submission whose predict raised has ended: error and form
\* on the page, nothing classified
C4_Witness ==
    /\ pc = "done"
    /\ submitted
    /\ exc = "predict"
    /\ calls = <<"collect", "predict">>
    /\ ErrorShown
    /\ FormShown

\* C5: the model's expected feature names are validated against the record's
\* field names at load time: no form is offered with a model whose feature
\* names differ, and predict never raises for a name mismatch.
C5_NamesValidatedAtLoad ==
    /\ FormShown => model.feature_names = Columns
    /\ exc # "predict"

C7_StrictOrder ==
    /\ IsPrefix(calls, <<"collect", "predict", "classify", "explain">>)
    /\ Invoked("collect") => (submitted /\ model \in Models)
    /\ Invoked("predict") => (model \in Models /\ input_data # NoRecord)
    /\ Invoked("classify") => (risk_prob \in Probs /\ exc # "predict")
    /\ Invoked("explain") => (ResultShown /\ HasKind(screen, "metrics"))
    /\ (exc = "predict" /\ Handled) => calls = <<"collect", "predict">>
    /\ (exc = "explain" /\ Handled) =>
          calls = <<"collect", "predict", "classify", "explain">>

\* a run went through all four operations and the last one raised
C7_Witness ==
    /\ calls = <<"collect", "predict", "classify", "explain">>
    /\ exc = "explain"
    /\ pc = "done"

\* C8: without a submission nothing of the pipeline is invoked and the run
\* ends with the idle prompt and neither result nor error; a submission's
\* run always ends, with a result or an error on the page; and a run starts
\* with no record, probability, error or page content of the run before,
\* and shows only what it computed itself from the current widget values.
C8_Lifecycle ==
    /\ []((~submitted /\ pc # "stopped") =>
            /\ calls = <<>>
            /\ ~ResultShown
            /\ ~ErrorShown
            /\ pc = "done" => HasKind(screen, "idle_prompt"))
    /\ [](submitted => ~HasKind(screen, "idle_prompt"))
    /\ []((submitted /\ pc = "done") => (ResultShown \/ ErrorShown))
    /\ [](pc = "load" =>
            /\ input_data = NoRecord
            /\ risk_prob = NoProb
            /\ exc = "none"
            /\ screen = << [kind |-> "header"] >>)
    /\ []((Running /\ input_data # NoRecord) => input_data = BuildRecord(widgets))
    /\ [](/\ \A r \in Elements(screen, "result") : r.prob = risk_prob
          /\ \A m \in Elements(screen, "metrics") : m.score = risk_prob
          /\ \A t \in Elements(screen, "input_log") : t.table = input_data)
    /\ (submitted /\ pc = "load") ~>
          (submitted /\ pc = "done" /\ (ResultShown \/ ErrorShown))

\* a second submission of the session, with other values than the defaults,
\* has been answered
C8_Witness ==
    /\ submitted
    /\ pc = "done"
    /\ ResultShown
    /\ input_data # NoRecord
    /\ input_data # BuildRecord([f \in Fields |-> NumberInputs[f].value])

\* C9: the relative-risk label is "Elevated" exactly when p > 0.40 and
\* "Stable" otherwise; the guidance text is fixed by the tier; High always
\* carries Elevated and Low always carries Stable.
C9_RelativeRiskIndependent ==
    /\ \A m \in Elements(screen, "metrics") :
          /\ m.relative \in {"Elevated", "Stable"}
          /\ (m.relative = "Elevated") <=> (m.score > ElevatedCut)
    /\ \A r \in Elements(screen, "result") :
          /\ r.status_text = "High Risk Profile"
                => r.advice = "Intensive perinatal monitoring"
          /\ r.status_text = "Moderate Risk Profile"
                => r.advice = "Increased surveillance"
          /\ r.status_text = "Low Risk Profile"
                => r.advice = "Standard management"
          /\ \A m \in Elements(screen, "metrics") :
                /\ r.status_text = "High Risk Profile" => m.relative = "Elevated"
                /\ r.status_text = "Low Risk Profile" => m.relative = "Stable"

\* p = 0.40 exactly: Moderate and Stable
C9_Witness ==
    /\ \E m \in Elements(screen, "metrics") :
          m.score = ElevatedCut /\ m.relative = "Stable"
    /\ \E r \in Elements(screen, "result") :
          r.status_text = "Moderate Risk Profile"

\* C10: every record built, and so every record predict sees, has exactly
\* the five fields, each within its declared bounds; the widgets never hold
\* an out-of-range value.
C10_RecordInBounds ==
    LET InBounds(rec) ==
            /\ DOMAIN rec = {"BMI", "FPG", "TG", "A1/B", "D_dimer"}
            /\ 1500 <= rec["BMI"] /\ rec["BMI"] <= 5000
            /\ 200 <= rec["FPG"] /\ rec["FPG"] <= 2000
            /\ 10 <= rec["TG"] /\ rec["TG"] <= 1500
            /\ 10 <= rec["A1/B"] /\ rec["A1/B"] <= 500
            /\ 0 <= rec["D_dimer"] /\ rec["D_dimer"] <= 1000
    IN  /\ InBounds(BuildRecord(widgets))
        /\ input_data # NoRecord => InBounds(input_data)
        /\ \A t \in Elements(screen, "input_log") : InBounds(t.table)
        /\ \A t \in Elements(screen, "force_plot") : InBounds(t.row)

\* predict has been invoked on a record holding values at both ends of
\* their ranges
C10_Witness ==
    /\ Invoked("predict")
    /\ input_data # NoRecord
    /\ input_data["BMI"] = 5000
    /\ input_data["TG"] = 10

====
